---- MODULE Spec2Model ----
(***************************************************************************)
(* A model of go-compatible: the version package (ParseLine, Parse,        *)
(* Compare, Less, String), release discovery (gosdklist) and the           *)
(* verification run loop (run, govet, gotest) of main.go.                  *)
(*                                                                         *)
(* A Go string or []byte is a sequence of one-character strings.           *)
(***************************************************************************)
EXTENDS Integers, Sequences, FiniteSets

VARIABLES
    \* version package harness: an input text and the result of the last call
    form, input, op, result, str, reparsed,
    \* comparison harness: two versions and the result of the last call
    va, vb, cop, cint, cbool,
    \* the program: main, gosdklist, run
    pc, files, since, test, pos, probed, list, releases, err, rpos, index,
    stderr, calls,
    \* invoke package harness: a command, what running it did, and what the
    \* last call returned
    icmd, iran, iop, iout, ierr

parseVars == <<form, input, op, result, str, reparsed>>
cmpVars == <<va, vb, cop, cint, cbool>>
mainVars ==
    <<pc, files, since, test, pos, probed, list, releases, err, rpos, index,
      stderr, calls>>
invokeVars == <<icmd, iran, iop, iout, ierr>>
vars == <<parseVars, cmpVars, mainVars, invokeVars>>

----------------------------------------------------------------------------
(* Bounds of the model. *)

\* longest raw text handed to Parse, after its prefix
MaxLen == 5
\* largest major, minor and patch number of a well-formed input
MaxNum == 11
\* longest pre-release suffix of a well-formed input
MaxSuffixLen == 2
\* most whitespace-separated fields of a version line
MaxFields == 5
\* largest major, minor and patch number of the versions compared
MaxMajor == 1
MaxMinor == 1
MaxPatch == 1
\* most entries of the SDK directory
MaxFiles == 3

----------------------------------------------------------------------------
(* Bytes and strings. *)

\* The bytes of the model in ascending byte order: Go compares strings
\* bytewise (x < y in strcmp).
Chars ==
    << "\t", "\n", " ", "-", ".", "/",
       "0", "1", "2", "3", "4", "5", "6", "7", "8", "9",
       "a", "b", "c", "d", "e", "f", "g", "h", "i", "j", "k", "l", "m",
       "n", "o", "p", "q", "r", "s", "t", "u", "v", "w", "x", "y", "z" >>

Ord(c) == CHOOSE i \in 1..Len(Chars) : Chars[i] = c

Digits == << "0", "1", "2", "3", "4", "5", "6", "7", "8", "9" >>

IsDigit(c) == \E i \in 1..Len(Digits) : Digits[i] = c

DigitVal(c) == (CHOOSE i \in 1..Len(Digits) : Digits[i] = c) - 1

\* unicode.IsSpace, on the bytes of the model
IsSpace(c) == c \in {"\t", "\n", " "}

\* the builtin x < y on strings: bytewise lexicographic order
StrLess(x, y) ==
    \E k \in 1..Len(y) :
        /\ k <= Len(x) + 1
        /\ \A j \in 1..(k - 1) : x[j] = y[j]
        /\ \/ k = Len(x) + 1
           \/ Ord(x[k]) < Ord(y[k])

HasPrefix(s, prefix) ==
    /\ Len(s) >= Len(prefix)
    /\ SubSeq(s, 1, Len(prefix)) = prefix

\* first index at or after i that holds no space; Len(s) + 1 when none
NextNonSpace(s, i) ==
    CHOOSE j \in i..(Len(s) + 1) :
        /\ \A k \in i..(j - 1) : IsSpace(s[k])
        /\ (j = Len(s) + 1 \/ ~IsSpace(s[j]))

\* first index at or after i that holds a space; Len(s) + 1 when none
NextSpace(s, i) ==
    CHOOSE j \in i..(Len(s) + 1) :
        /\ \A k \in i..(j - 1) : ~IsSpace(s[k])
        /\ (j = Len(s) + 1 \/ IsSpace(s[j]))

RECURSIVE FieldsAt(_, _)
FieldsAt(s, i) ==
    LET b == NextNonSpace(s, i)
    IN  IF b > Len(s)
        THEN << >>
        ELSE LET e == NextSpace(s, b)
             IN  << SubSeq(s, b, e - 1) >> \o FieldsAt(s, e)

\* strings.Fields: the maximal runs of non-space bytes
Fields(s) == FieldsAt(s, 1)

\* index of the last byte that is no space; 0 when none
LastNonSpace(s) ==
    CHOOSE j \in 0..Len(s) :
        /\ \A k \in (j + 1)..Len(s) : IsSpace(s[k])
        /\ (j = 0 \/ ~IsSpace(s[j]))

\* bytes.TrimSpace.  It returns nil, never an empty non-nil slice, when
\* nothing is left: nil is the empty sequence here.
TrimSpace(s) ==
    LET start == NextNonSpace(s, 1)
        stop == LastNonSpace(s)
    IN  IF start > stop THEN << >> ELSE SubSeq(s, start, stop)

\* invoke.normalize
normalize(b) == TrimSpace(b)

----------------------------------------------------------------------------
(* strconv. *)

\* the decimal digits of the largest int (64 bits)
MaxIntDigits ==
    << "9", "2", "2", "3", "3", "7", "2", "0", "3", "6",
       "8", "5", "4", "7", "7", "5", "8", "0", "7" >>

RECURSIVE DecimalValue(_)
DecimalValue(s) ==
    IF s = << >>
    THEN 0
    ELSE DecimalValue(SubSeq(s, 1, Len(s) - 1)) * Len(Digits) + DigitVal(s[Len(s)])

\* strconv.Atoi on a digit string without a sign or leading zeros (all the
\* regex lets through): out of range beyond the largest int.
Atoi(s) ==
    LET inRange ==
            \/ Len(s) < Len(MaxIntDigits)
            \/ Len(s) = Len(MaxIntDigits) /\ ~StrLess(MaxIntDigits, s)
    IN  IF s # << >> /\ inRange
        THEN [ok |-> TRUE, val |-> DecimalValue(s)]
        ELSE [ok |-> FALSE, val |-> 0]

RECURSIVE Itoa(_)
\* strconv.Itoa on a non-negative int
Itoa(n) ==
    IF n < Len(Digits)
    THEN << Digits[n + 1] >>
    ELSE Itoa(n \div Len(Digits)) \o << Digits[(n % Len(Digits)) + 1] >>

----------------------------------------------------------------------------
(* Package version. *)

Version(major, minor, patch, pre) ==
    [Major |-> major, Minor |-> minor, Patch |-> patch, PreRelease |-> pre]

\* the zero value of Version
ZeroVersion == Version(0, 0, 0, << >>)

\* end (exclusive) of the match of 0|[1-9]\d* at i; 0 when there is none
NumEnd(s, i) ==
    IF i > Len(s) \/ ~IsDigit(s[i])
    THEN 0
    ELSE IF s[i] = "0"
         THEN i + 1
         ELSE CHOOSE j \in (i + 1)..(Len(s) + 1) :
                  /\ \A k \in i..(j - 1) : IsDigit(s[k])
                  /\ (j = Len(s) + 1 \/ ~IsDigit(s[j]))

NoMatch == [matched |-> FALSE, m |-> << >>]

\* regex.FindAllStringSubmatch(s, -1)[0]: the submatches major, minor,
\* patch and prerelease of the first match.  "." matches no newline and
\* "$" only the end of the text.
regex(s) ==
    LET e1 == NumEnd(s, 1)
    IN  IF e1 = 0 \/ e1 > Len(s) \/ s[e1] # "."
        THEN NoMatch
        ELSE LET e2 == NumEnd(s, e1 + 1)
             IN  IF e2 = 0
                 THEN NoMatch
                 ELSE LET hasPatch ==
                              /\ e2 <= Len(s)
                              /\ s[e2] = "."
                              /\ NumEnd(s, e2 + 1) # 0
                          e3 == IF hasPatch THEN NumEnd(s, e2 + 1) ELSE e2
                          pre == SubSeq(s, e3, Len(s))
                      IN  IF \E k \in 1..Len(pre) : pre[k] = "\n"
                          THEN NoMatch
                          ELSE [matched |-> TRUE,
                                m |-> << SubSeq(s, 1, e1 - 1),
                                         SubSeq(s, e1 + 1, e2 - 1),
                                         IF hasPatch
                                         THEN SubSeq(s, e2 + 1, e3 - 1)
                                         ELSE << >>,
                                         pre >>]

Ok(v) == [kind |-> "ok", v |-> v]
\* a returned error: the Version returned with it is the zero value
Error == [kind |-> "error", v |-> ZeroVersion]
\* a run-time panic (index out of range)
Panic == [kind |-> "panic", v |-> ZeroVersion]
\* no call made yet
NotCalled == [kind |-> "none", v |-> ZeroVersion]

GoPrefix == << "g", "o" >>

Parse(version) ==
    IF ~HasPrefix(version, GoPrefix)
    THEN Error
    ELSE LET r == regex(SubSeq(version, Len(GoPrefix) + 1, Len(version)))
         IN  IF ~r.matched
             THEN Error
             ELSE LET m == r.m
                      major == Atoi(m[1])
                      minor == Atoi(m[2])
                      patch == IF m[3] # << >>
                               THEN Atoi(m[3])
                               ELSE [ok |-> TRUE, val |-> 0]
                  IN  IF ~major.ok \/ ~minor.ok \/ ~patch.ok
                      THEN Error
                      ELSE Ok(Version(major.val, minor.val, patch.val, m[4]))

Devel == << "d", "e", "v", "e", "l" >>

\* ParseLine that takes the third field also after "go version devel"
ParseLineThirdField(line) ==
    LET fields == Fields(line)
    IN  IF Len(fields) < 3 THEN Panic ELSE Parse(fields[3])

ParseLine(line) ==
    LET fields == Fields(line)
    IN  IF Len(fields) < 3
        THEN Panic
        ELSE IF fields[3] = Devel
             THEN IF Len(fields) < 4 THEN Panic ELSE Parse(fields[4])
             ELSE Parse(fields[3])

intcmp(a, b) ==
    IF a < b THEN -1 ELSE IF a > b THEN 1 ELSE 0

strcmp(x, y) ==
    IF StrLess(x, y) THEN -1 ELSE IF StrLess(y, x) THEN 1 ELSE 0

\* precmp without the case of an empty y
precmpNoEmptyY(x, y) ==
    IF x = y THEN 0
    ELSE IF x = << >> THEN 1
    ELSE strcmp(x, y)

precmp(x, y) ==
    IF x = y THEN 0
    ELSE IF x = << >> THEN 1
    ELSE IF y = << >> THEN -1
    ELSE strcmp(x, y)

\* Compare that never looks at the patch number
CompareNoPatch(v, w) ==
    IF intcmp(v.Major, w.Major) # 0 THEN intcmp(v.Major, w.Major)
    ELSE IF intcmp(v.Minor, w.Minor) # 0 THEN intcmp(v.Minor, w.Minor)
    ELSE precmp(v.PreRelease, w.PreRelease)

Compare(v, w) ==
    IF intcmp(v.Major, w.Major) # 0 THEN intcmp(v.Major, w.Major)
    ELSE IF intcmp(v.Minor, w.Minor) # 0 THEN intcmp(v.Minor, w.Minor)
    ELSE IF intcmp(v.Patch, w.Patch) # 0 THEN intcmp(v.Patch, w.Patch)
    ELSE precmp(v.PreRelease, w.PreRelease)

Less(v, w) == Compare(v, w) < 0

\* String that prints the patch number also when it is 0
StringAlwaysPatch(v) ==
    Itoa(v.Major) \o << "." >> \o Itoa(v.Minor)
        \o (IF v.Patch >= 0 THEN << "." >> \o Itoa(v.Patch) ELSE << >>)
        \o (IF v.PreRelease # << >> THEN v.PreRelease ELSE << >>)

\* String that leaves out a patch number of 1
StringPatchAboveOne(v) ==
    Itoa(v.Major) \o << "." >> \o Itoa(v.Minor)
        \o (IF v.Patch > 1 THEN << "." >> \o Itoa(v.Patch) ELSE << >>)
        \o (IF v.PreRelease # << >> THEN v.PreRelease ELSE << >>)

String(v) ==
    Itoa(v.Major) \o << "." >> \o Itoa(v.Minor)
        \o (IF v.Patch > 0 THEN << "." >> \o Itoa(v.Patch) ELSE << >>)
        \o (IF v.PreRelease # << >> THEN v.PreRelease ELSE << >>)

RECURSIVE Join(_, _)
\* strings.Join
Join(elems, sep) ==
    IF elems = << >>
    THEN << >>
    ELSE IF Len(elems) = 1
         THEN elems[1]
         ELSE elems[1] \o sep \o Join(Tail(elems), sep)

----------------------------------------------------------------------------
(* Package invoke.  A command is [Path, Args, GOROOT]; what cmd.Run() did  *)
(* is [cause, stdout, stderr]: cause "nil" for exit status 0, "ExitError"  *)
(* for a non-zero exit status, "Error" for exec.Error (the executable was  *)
(* not found), "PathError" for a start that failed in another way.         *)

NilError ==
    [kind |-> "nil", Cmd |-> << >>, Argv |-> << >>, Stderr |-> << >>,
     Err |-> "nil"]

\* an error that is no *invoke.Error
PlainError(kind) ==
    [kind |-> kind, Cmd |-> << >>, Argv |-> << >>, Stderr |-> << >>,
     Err |-> "nil"]

\* invoke.Error whose Argv keeps the command name
InvokeErrorAllArgs(cmd, ran) ==
    [kind |-> "invoke", Cmd |-> cmd.Path, Argv |-> cmd.Args,
     Stderr |-> normalize(ran.stderr), Err |-> ran.cause]

\* &invoke.Error{Cmd, Argv, Stderr, Err}
InvokeError(cmd, ran) ==
    [kind |-> "invoke", Cmd |-> cmd.Path, Argv |-> Tail(cmd.Args),
     Stderr |-> normalize(ran.stderr), Err |-> ran.cause]

\* invoke.Run
Run(cmd, ran) ==
    IF ran.cause # "nil" THEN InvokeError(cmd, ran) ELSE NilError

\* invoke.Output, for a cmd whose Stdout is not set
Output(cmd, ran) ==
    [stdout |-> normalize(ran.stdout),
     err |-> IF ran.cause # "nil" THEN InvokeError(cmd, ran) ELSE NilError]

\* exec.Command(name, arg...) with cmd.Env = os.Environ() + GOROOT
Command(name, arg, goroot) ==
    [Path |-> name, Args |-> << name >> \o arg, GOROOT |-> goroot]

\* filepath.Join of clean elements
PathJoin(elems) == Join(elems, << "/" >>)

Bin == << "b", "i", "n" >>

----------------------------------------------------------------------------
(* The version package applied to input texts. *)

\* the strings over the bytes of A, of length at most n
Strs(A, n) == UNION { [1..k -> A] : k \in 0..n }

\* Texts handed to Parse as they come: a prefix and a short body.
RawPrefixes == { GoPrefix, << "g" >>, << >> }
RawChars == { "0", "1", ".", "b", "\n" }
RawTexts == { p \o b : p \in RawPrefixes, b \in Strs(RawChars, MaxLen) }

\* Well-formed texts go<M>.<N>, go<M>.<N>.<P> and go<M>.<N><suffix>.
Nums == 0..MaxNum
SuffixChars == { "1", ".", "b", "-", "\n" }
Suffixes == Strs(SuffixChars, MaxSuffixLen) \ { << >> }
WellFormed ==
    [shape : {"MN"}, M : Nums, N : Nums, P : {0}, suffix : { << >> }]
        \cup [shape : {"MNP"}, M : Nums, N : Nums, P : Nums, suffix : { << >> }]
        \cup [shape : {"MNS"}, M : Nums, N : Nums, P : {0}, suffix : Suffixes]

FormText(f) ==
    GoPrefix \o Itoa(f.M) \o << "." >> \o Itoa(f.N)
        \o (IF f.shape = "MNP" THEN << "." >> \o Itoa(f.P) ELSE << >>)
        \o f.suffix

Platform == << "l", "i", "n", "u", "x", "/", "a", "m", "d", "6", "4" >>

\* Lines as "go version" prints them, and shorter and longer ones.
Tokens ==
    { GoPrefix,
      << "v", "e", "r", "s", "i", "o", "n" >>,
      Devel,
      << "g", "o", "1", ".", "6" >>,
      << "1", ".", "6" >> }
Lines ==
    { pad \o Join(fs, << " " >>) \o pad :
        fs \in UNION { [1..k -> Tokens] : k \in 0..MaxFields },
        pad \in { << >>, << "\t" >> } }

NoForm(shape) == [shape |-> shape, M |-> 0, N |-> 0, P |-> 0, suffix |-> << >>]

\* The two shapes of the output of "go version": "go version <V> <os>/<arch>"
\* and "go version devel <V> <timestamp> <os>/<arch>".  The version token,
\* well-formed or not, is the suffix of the form.
VersionWords ==
    { << "g", "o", "1", ".", "6" >>,
      << "g", "o", "1", ".", "1", "6", ".", "1" >>,
      << "g", "o", "1", ".", "1", "7", "-", "3", "f" >>,
      << "g", "o", "x" >>,
      << "1", ".", "6" >> }
TimeStamps ==
    { << "f", "r", "i", " ", "a", "p", "r", " ", "2" >>,
      << "g", "o", "1", ".", "5" >> }
Platforms == { Platform, << "g", "o", "1", ".", "4", "/", "x" >> }
Separators == { << " " >>, << "\t", " " >> }
ReportForms ==
    [shape : {"stable", "devel"}, M : {0}, N : {0}, P : {0}, suffix : VersionWords]

VersionWord == << "v", "e", "r", "s", "i", "o", "n" >>

ReportLines(f) ==
    { Join(IF f.shape = "devel"
           THEN << GoPrefix, VersionWord, Devel, f.suffix, t, p >>
           ELSE << GoPrefix, VersionWord, f.suffix, p >>, sep) \o end :
        t \in TimeStamps, p \in Platforms, sep \in Separators,
        end \in { << >>, << "\n" >> } }

ParseIdle ==
    /\ form = NoForm("none")
    /\ input = << >>
    /\ op = "init"
    /\ result = Error
    /\ str = << >>
    /\ reparsed = NotCalled

CompareIdle ==
    /\ va = ZeroVersion
    /\ vb = ZeroVersion
    /\ cop = "init"
    /\ cint = 0
    /\ cbool = FALSE

MainIdle ==
    /\ pc = "idle"
    /\ files = << >>
    /\ since = ZeroVersion
    /\ test = FALSE
    /\ pos = 0
    /\ probed = << >>
    /\ list = << >>
    /\ releases = << >>
    /\ err = NilError
    /\ rpos = 0
    /\ index = 0
    /\ stderr = << >>
    /\ calls = << >>

InvokeIdle ==
    /\ icmd = Command(<< >>, << >>, << >>)
    /\ iran = [cause |-> "nil", stdout |-> << >>, stderr |-> << >>]
    /\ iop = "init"
    /\ iout = << >>
    /\ ierr = NilError

\* Texts go<M>.<N>.<P><suffix>, with a patch number and a suffix.
PatchedForms ==
    [shape : {"MNPS"}, M : 0..MaxMajor, N : 0..MaxMinor, P : 0..MaxPatch,
     suffix : Suffixes]

PatchedText(f) ==
    GoPrefix \o Itoa(f.M) \o << "." >> \o Itoa(f.N) \o << "." >> \o Itoa(f.P)
        \o f.suffix

InitParse ==
    /\ \/ form \in WellFormed /\ input = FormText(form)
       \/ form = NoForm("raw") /\ input \in RawTexts
       \/ form = NoForm("line") /\ input \in Lines
       \/ form \in ReportForms /\ input \in ReportLines(form)
       \/ form \in PatchedForms /\ input = PatchedText(form)
    /\ op = "init"
    /\ result = Error
    /\ str = << >>
    /\ reparsed = NotCalled
    /\ CompareIdle
    /\ MainIdle
    /\ InvokeIdle

\* result = Parse(input)
DoParse ==
    /\ op = "init"
    /\ op' = "Parse"
    /\ result' = Parse(input)
    /\ UNCHANGED <<form, input, str, reparsed, cmpVars, mainVars, invokeVars>>

\* result = ParseLine(input)
DoParseLine ==
    /\ op = "init"
    /\ op' = "ParseLine"
    /\ result' = ParseLine(input)
    /\ UNCHANGED <<form, input, str, reparsed, cmpVars, mainVars, invokeVars>>

\* str = result.String(), for a Version that was returned without error
DoString ==
    /\ op # "init"
    /\ result.kind = "ok"
    /\ str = << >>
    /\ str' = String(result.v)
    /\ UNCHANGED <<form, input, op, result, reparsed, cmpVars, mainVars,
                   invokeVars>>

\* reparsed = Parse("go" + str)
DoReparse ==
    /\ str # << >>
    /\ reparsed = NotCalled
    /\ reparsed' = Parse(GoPrefix \o str)
    /\ UNCHANGED <<form, input, op, result, str, cmpVars, mainVars, invokeVars>>

NextParse == DoParse \/ DoParseLine \/ DoString \/ DoReparse

SpecParse == InitParse /\ [][NextParse]_vars

----------------------------------------------------------------------------
(* Compare and Less applied to pairs of versions. *)

PreReleases ==
    { << >>, << "-" >>, << "b" >>, << "b", "1" >>, << "b", "-" >>, << "-", "b" >> }

Versions ==
    [Major : 0..MaxMajor, Minor : 0..MaxMinor, Patch : 0..MaxPatch,
     PreRelease : PreReleases]

InitCompare ==
    /\ va \in Versions
    /\ vb \in Versions
    /\ cop = "init"
    /\ cint = 0
    /\ cbool = FALSE
    /\ ParseIdle
    /\ MainIdle
    /\ InvokeIdle

\* cint = va.Compare(vb)
DoCompare ==
    /\ cop = "init"
    /\ cop' = "Compare"
    /\ cint' = Compare(va, vb)
    /\ UNCHANGED <<va, vb, cbool, parseVars, mainVars, invokeVars>>

\* cbool = va.Less(vb)
DoLess ==
    /\ cop = "init"
    /\ cop' = "Less"
    /\ cbool' = Less(va, vb)
    /\ UNCHANGED <<va, vb, cint, parseVars, mainVars, invokeVars>>

NextCompare == DoCompare \/ DoLess

SpecCompare == InitCompare /\ [][NextCompare]_vars

----------------------------------------------------------------------------
(* Run and Output applied to commands and to what running them did. *)

InvokeNames == { << "/", "t", "/", "s", "h" >>, GoPrefix }
InvokeArgs ==
    { << >>, << << "-", "a" >>, << "b" >> >>, << << "v", "e", "t" >> >> }

\* what a command wrote to stdout or to stderr
Outputs ==
    { << >>, << "\n" >>, << "\t", "h", "i", "\n" >>, << "a", " ", "b" >>,
      << " ", "x" >> }

\* a command that ran wrote something; one that did not start wrote nothing
Runs ==
    [cause : {"nil", "ExitError"}, stdout : Outputs, stderr : Outputs]
        \cup [cause : {"Error", "PathError"}, stdout : { << >> },
              stderr : { << >> }]

InitInvoke ==
    /\ \E name \in InvokeNames, arg \in InvokeArgs :
           icmd = Command(name, arg, << >>)
    /\ iran \in Runs
    /\ iop = "init"
    /\ iout = << >>
    /\ ierr = NilError
    /\ ParseIdle
    /\ CompareIdle
    /\ MainIdle

\* ierr = Run(icmd)
DoRun ==
    /\ iop = "init"
    /\ iop' = "Run"
    /\ ierr' = Run(icmd, iran)
    /\ UNCHANGED <<icmd, iran, iout, parseVars, cmpVars, mainVars>>

\* iout, ierr = Output(icmd)
DoOutput ==
    /\ iop = "init"
    /\ iop' = "Output"
    /\ iout' = Output(icmd, iran).stdout
    /\ ierr' = Output(icmd, iran).err
    /\ UNCHANGED <<icmd, iran, parseVars, cmpVars, mainVars>>

\* iout, ierr = Output(icmd) for a command whose Stdout is set already:
\* the command is not run
DoOutputStdoutSet ==
    /\ iop = "init"
    /\ iop' = "OutputStdoutSet"
    /\ iout' = << >>
    /\ ierr' = PlainError("invoke: Stdout already set")
    /\ UNCHANGED <<icmd, iran, parseVars, cmpVars, mainVars>>

NextInvoke == DoRun \/ DoOutput \/ DoOutputStdoutSet

SpecInvoke == InitInvoke /\ [][NextInvoke]_vars

\* t is s without its leading and trailing white space
IsTrimOf(t, s) ==
    \E a \in 0..Len(s) :
        \E b \in a..Len(s) :
            /\ t = SubSeq(s, a + 1, b)
            /\ \A k \in 1..a : IsSpace(s[k])
            /\ \A k \in (b + 1)..Len(s) : IsSpace(s[k])
            /\ t # << >> => ~IsSpace(t[1]) /\ ~IsSpace(t[Len(t)])

\* C12: when a command is started and exits with a non-zero status, Run
\* and Output return an *Error whose Cmd is the command path, whose Argv
\* is the argument list without the command name, whose Stderr is the
\* captured stderr without leading and trailing white space and whose Err
\* is the exit error, not a could-not-start error; Output also returns the
\* captured stdout without leading and trailing white space.
InvokeReportsExit ==
    iran.cause = "ExitError" /\ iop \in {"Run", "Output"} =>
        /\ ierr.kind = "invoke"
        /\ ierr.Cmd = icmd.Path
        /\ << icmd.Path >> \o ierr.Argv = icmd.Args
        /\ IsTrimOf(ierr.Stderr, iran.stderr)
        /\ ierr.Err = "ExitError"
        /\ ierr.Err \notin {"Error", "PathError"}
        /\ iop = "Output" => IsTrimOf(iout, iran.stdout)

\* C12 witness: Output on a command with two arguments that wrote padded
\* text to stdout and to stderr and exited with a non-zero status.
InvokeOutputWitness ==
    /\ iop = "Output"
    /\ iran = [cause |-> "ExitError", stdout |-> << "\t", "h", "i", "\n" >>,
               stderr |-> << " ", "x" >>]
    /\ ierr.Argv = << << "-", "a" >>, << "b" >> >>
    /\ ierr.Stderr = << "x" >>
    /\ iout = << "h", "i" >>

----------------------------------------------------------------------------
(* Claims about the version package. *)

\* C3: ParseLine returns a Version or a ParseError for every input line,
\* lines with fewer than three fields and a "devel" line without a fourth
\* field included; it never crashes.
ParseLineNeverCrashes ==
    op = "ParseLine" => result.kind \in {"ok", "error"}

\* -1 when a < b and +1 when a > b, for a # b
Sign(aLess) == IF aLess THEN -1 ELSE 1

SameNumbers(v, w) ==
    v.Major = w.Major /\ v.Minor = w.Minor /\ v.Patch = w.Patch

\* C4: Compare(v, w) is in {-1, 0, +1} and is decided by the first
\* differing component among major, minor, patch; with all three equal a
\* version without pre-release is greater than one with a pre-release,
\* equal pre-releases give 0 and distinct non-empty ones are ordered as
\* strings.  Less(v, w) is true exactly when Compare(v, w) = -1.
CompareByFirstDifference ==
    /\ cop = "Compare" =>
        /\ cint \in {-1, 0, 1}
        /\ va.Major # vb.Major => cint = Sign(va.Major < vb.Major)
        /\ va.Major = vb.Major /\ va.Minor # vb.Minor =>
               cint = Sign(va.Minor < vb.Minor)
        /\ va.Major = vb.Major /\ va.Minor = vb.Minor /\ va.Patch # vb.Patch =>
               cint = Sign(va.Patch < vb.Patch)
        /\ SameNumbers(va, vb) =>
            /\ va.PreRelease = vb.PreRelease => cint = 0
            /\ va.PreRelease = << >> /\ vb.PreRelease # << >> => cint = 1
            /\ va.PreRelease # << >> /\ vb.PreRelease = << >> => cint = -1
            /\ /\ va.PreRelease # << >>
               /\ vb.PreRelease # << >>
               /\ va.PreRelease # vb.PreRelease
               => cint = Sign(StrLess(va.PreRelease, vb.PreRelease))
    /\ cop = "Less" => (cbool <=> Compare(va, vb) = -1)

\* C4 witness: two versions with equal numbers and distinct non-empty
\* pre-releases, the first a proper prefix of the second, were compared.
CompareSuffixesWitness ==
    /\ cop = "Compare"
    /\ SameNumbers(va, vb)
    /\ va.PreRelease = << "b" >>
    /\ vb.PreRelease = << "b", "1" >>
    /\ cint = -1

Beta1 == << "b", "e", "t", "a", "1" >>

\* C5: comparison is a strict total order: Compare(v, w) = 0 exactly when
\* v and w are identical, Compare(v, w) = -Compare(w, v), and Less is
\* transitive; in particular 1.16 > 1.16beta1 > 1.6.
CompareTotalOrder ==
    /\ cop = "Compare" =>
        /\ (cint = 0) <=> (va = vb)
        /\ cint = -Compare(vb, va)
    /\ cop = "Less" /\ cbool =>
        \A w \in Versions : Less(vb, w) => Less(va, w)
    /\ Compare(Version(1, 16, 0, << >>), Version(1, 16, 0, Beta1)) = 1
    /\ Compare(Version(1, 16, 0, Beta1), Version(1, 6, 0, << >>)) = 1

\* C5 witness: a pre-release was found less than its final release, which
\* in turn is less than some third version.
CompareChainWitness ==
    /\ cop = "Less"
    /\ cbool
    /\ SameNumbers(va, vb)
    /\ va.PreRelease # << >>
    /\ vb.PreRelease = << >>
    /\ \E w \in Versions : Less(vb, w)

\* the canonical text of a well-formed input
Canonical(f) ==
    Itoa(f.M) \o << "." >> \o Itoa(f.N)
        \o (IF f.P > 0 THEN << "." >> \o Itoa(f.P) ELSE << >>)
        \o f.suffix

ParsedAsWritten ==
    /\ op = "Parse" => result = Ok(Version(form.M, form.N, form.P, form.suffix))
    /\ op = "Parse" /\ str # << >> => str = Canonical(form)

\* C6 as claimed: for every input go<M>.<N>, go<M>.<N>.<P> and
\* go<M>.<N><suffix>, Parse gives major M, minor N, patch P (0 when absent)
\* and pre-release suffix, and String gives the canonical text.
ParseStringCanonicalAnySuffix ==
    form.shape \in {"MN", "MNP", "MNS"} => ParsedAsWritten

\* a suffix the numeric groups of the regex leave alone and "." can match
PlainSuffix(x) ==
    /\ x # << >> => ~IsDigit(x[1])
    /\ Len(x) >= 2 => ~(x[1] = "." /\ IsDigit(x[2]))
    /\ \A k \in 1..Len(x) : x[k] # "\n"

\* C6 amended: the same, for suffixes that do not begin with a digit or
\* with a period followed by a digit and that hold no newline.
ParseStringCanonical ==
    form.shape \in {"MN", "MNP", "MNS"} /\ PlainSuffix(form.suffix) =>
        ParsedAsWritten

\* C6 witness: a text with a two-digit minor number and a pre-release
\* suffix was parsed and formatted.
ParseStringWitness ==
    /\ form.shape = "MNS"
    /\ form.N = 10
    /\ form.suffix = << "b", "1" >>
    /\ op = "Parse"
    /\ str = << "1", ".", "1", "0", "b", "1" >>

\* C11: for a line "go version <V> <os>/<arch>" and for a line
\* "go version devel <V> <timestamp> <os>/<arch>" ParseLine returns
\* Parse(<V>): the token parsed is the third field, or the fourth when the
\* third is "devel", and the timestamp and the platform do not matter.
ParseLineTakesVersionToken ==
    form.shape \in {"stable", "devel"} /\ op = "ParseLine" =>
        /\ result = Parse(form.suffix)
        /\ LET fields == Fields(input)
           IN  form.suffix = IF fields[3] = Devel THEN fields[4] ELSE fields[3]

\* C11 witness: a devel line whose timestamp and platform would parse as
\* versions gave the version of its fourth field.
ParseLineDevelWitness ==
    /\ form.shape = "devel"
    /\ form.suffix = << "g", "o", "1", ".", "1", "7", "-", "3", "f" >>
    /\ Fields(input)[5] = << "g", "o", "1", ".", "5" >>
    /\ op = "ParseLine"
    /\ result = Ok(Version(1, 17, 0, << "-", "3", "f" >>))

RoundTrips == reparsed = Ok(result.v)

\* C13 as claimed: for every version v returned by Parse whose pre-release
\* does not begin with a period, Parse("go" + String(v)) succeeds and
\* returns a version equal to v in all four fields.
RoundTripUnlessPeriod ==
    /\ reparsed # NotCalled
    /\ ~HasPrefix(result.v.PreRelease, << "." >>)
    => RoundTrips

\* C13 amended: the same, for pre-releases that begin with neither a
\* period nor a digit.
RoundTripUnlessPeriodOrDigit ==
    /\ reparsed # NotCalled
    /\ ~HasPrefix(result.v.PreRelease, << "." >>)
    /\ result.v.PreRelease # << >> => ~IsDigit(result.v.PreRelease[1])
    => RoundTrips

\* C13 witness: a version with a patch number and a pre-release came back
\* from its text.
RoundTripWitness ==
    /\ form.shape = "MNPS"
    /\ result = Ok(Version(1, 1, 1, << "b", "1" >>))
    /\ str = << "1", ".", "1", ".", "1", "b", "1" >>
    /\ reparsed = result

----------------------------------------------------------------------------
(* Package main: gosdklist and run. *)

\* the SDK directory
gosdk == << "s", "d", "k" >>

\* the names an entry of the SDK directory can have
Names ==
    { << "g", "o", "a" >>, << "g", "o", "b" >>, << "g", "o", "c" >>,
      << "s", "r", "c" >> }

\* os.ReadDir returns the entries sorted by filename
SortedByName(fs) ==
    \A i \in 1..(Len(fs) - 1) : StrLess(fs[i].name, fs[i + 1].name)

Listings ==
    { fs \in UNION { [1..k -> [name : Names, isDir : BOOLEAN]] : k \in 0..MaxFiles } :
        SortedByName(fs) }

V114 == Version(1, 14, 0, << >>)
V115 == Version(1, 15, 0, << >>)
V116 == Version(1, 16, 0, << >>)

\* the values of the -since flag: unset, and 1.15
Sinces == { ZeroVersion, V115 }

\* the package patterns of the command line
patterns == << << ".", "/", ".", ".", "." >> >>

\* "go version <token> <os>/<arch>" and a final newline
VersionLine(token) ==
    Join(<< GoPrefix, << "v", "e", "r", "s", "i", "o", "n" >>, token, Platform >>,
         << " " >>) \o << "\n" >>

\* what "go version" of an installed release may do: print a version line,
\* print nothing, exit with a non-zero status, or not start
VersionTokens ==
    { << "g", "o", "1", ".", "1", "4" >>,
      << "g", "o", "1", ".", "1", "5" >>,
      << "g", "o", "1", ".", "1", "6" >>,
      << "g", "o", "0", ".", "0", "b" >>,
      << "1", ".", "1", "6" >> }
GoVersionRuns ==
    { [cause |-> "nil", stdout |-> VersionLine(t), stderr |-> << >>] :
        t \in VersionTokens }
        \cup { [cause |-> "nil", stdout |-> << "\n" >>, stderr |-> << >>],
               [cause |-> "ExitError", stdout |-> << >>, stderr |-> << "x" >>],
               [cause |-> "Error", stdout |-> << >>, stderr |-> << >>] }

\* what "go vet" or "go test" of a release may do
ToolRuns ==
    { [cause |-> "nil", stdout |-> << >>, stderr |-> e] :
        e \in { << >>, << "y" >> } }
        \cup { [cause |-> "ExitError", stdout |-> << >>, stderr |-> e] :
                 e \in { << >>, << "\t", "x", "\n" >>, << "y" >> } }
        \cup { [cause |-> c, stdout |-> << >>, stderr |-> << >>] :
                 c \in { "Error", "PathError" } }

Release(goroot, version) == [goroot |-> goroot, version |-> version]

\* goversion: the command, and what it returns for what the command did
goversionCmd(goroot) ==
    Command(PathJoin(<< goroot, Bin, GoPrefix >>),
            << << "v", "e", "r", "s", "i", "o", "n" >> >>, goroot)

goversion(goroot, ran) ==
    LET out == Output(goversionCmd(goroot), ran)
    IN  IF out.err # NilError
        THEN [line |-> << >>, err |-> out.err]
        ELSE [line |-> out.stdout, err |-> NilError]

toolCmd(rel, pats, sub) ==
    Command(PathJoin(<< rel.goroot, Bin, GoPrefix >>), << sub >> \o pats,
            rel.goroot)

\* classify without the return after the type switch: an error that is
\* neither an exec.Error nor an exec.ExitError is dropped
classifyTwoCases(cmd, ran) ==
    LET e == Run(cmd, ran)
    IN  IF e # NilError
        THEN IF e.Err = "Error"
             THEN [msg |-> << >>, err |-> e]
             ELSE IF e.Err = "ExitError"
                  THEN [msg |-> e.Stderr, err |-> NilError]
                  ELSE [msg |-> << >>, err |-> NilError]
        ELSE [msg |-> << >>, err |-> NilError]

\* the body shared by govet and gotest: the diagnostic message (nil is the
\* empty sequence) and the error
classify(cmd, ran) ==
    LET e == Run(cmd, ran)
    IN  IF e # NilError
        THEN IF e.Err = "Error"
             THEN [msg |-> << >>, err |-> e]
             ELSE IF e.Err = "ExitError"
                  THEN [msg |-> e.Stderr, err |-> NilError]
                  ELSE [msg |-> << >>, err |-> e]
        ELSE [msg |-> << >>, err |-> NilError]

govet(rel, pats, ran) == classify(toolCmd(rel, pats, << "v", "e", "t" >>), ran)

gotest(rel, pats, ran) ==
    classify(toolCmd(rel, pats, << "t", "e", "s", "t" >>), ran)

Write(what, data) == [what |-> what, data |-> data]

Using == << "u", "s", "i", "n", "g", " ", "g", "o" >>

\* Diagnostic with a separator before the first message too
DiagnosticAlwaysSeparated(idx, rel, msg) ==
    (IF idx >= 0 THEN << Write("separator", << "\n" >>) >> ELSE << >>)
        \o << Write("header", Using \o String(rel.version) \o << "\n" >>),
              Write("message", msg),
              Write("newline", << "\n" >>) >>

\* what one iteration of the loop of run writes for a diagnostic message
Diagnostic(idx, rel, msg) ==
    (IF idx > 0 THEN << Write("separator", << "\n" >>) >> ELSE << >>)
        \o << Write("header", Using \o String(rel.version) \o << "\n" >>),
              Write("message", msg),
              Write("newline", << "\n" >>) >>

\* the orders sort.Slice may leave the list in: sorted by version, the
\* order of equal versions not specified
Orderings(n) ==
    { p \in [1..n -> 1..n] : \A i, j \in 1..n : i # j => p[i] # p[j] }

Sorted(l) ==
    { [i \in 1..Len(l) |-> l[p[i]]] : p \in
        { q \in Orderings(Len(l)) :
            \A i, j \in 1..Len(l) :
                i < j => ~Less(l[q[j]].version, l[q[i]].version) } }

Init ==
    /\ pc = "main"
    /\ files \in Listings
    /\ since \in Sinces
    /\ test \in BOOLEAN
    /\ pos = 0
    /\ probed = << >>
    /\ list = << >>
    /\ releases = << >>
    /\ err = NilError
    /\ rpos = 0
    /\ index = 0
    /\ stderr = << >>
    /\ calls = << >>
    /\ ParseIdle
    /\ CompareIdle
    /\ InvokeIdle

\* gosdklist: os.ReadDir fails
gosdklistReadDirFails ==
    /\ pc = "main"
    /\ pc' = "exit1"
    /\ err' = PlainError("readdir")
    /\ UNCHANGED <<files, since, test, pos, probed, list, releases, rpos,
                   index, stderr, calls, parseVars, cmpVars, invokeVars>>

\* gosdklist: os.ReadDir returns the entries
gosdklistReadDir ==
    /\ pc = "main"
    /\ pc' = "list"
    /\ pos' = 1
    /\ UNCHANGED <<files, since, test, probed, list, releases, err, rpos,
                   index, stderr, calls, parseVars, cmpVars, invokeVars>>

\* gosdklist: one iteration of the loop over the entries
gosdklistLoop ==
    /\ pc = "list"
    /\ pos <= Len(files)
    /\ LET file == files[pos]
           goroot == PathJoin(<< gosdk, file.name >>)
       IN  IF ~(file.isDir /\ HasPrefix(file.name, GoPrefix))
           THEN /\ pos' = pos + 1
                /\ UNCHANGED <<pc, probed, list, err>>
           ELSE \E ran \in GoVersionRuns :
                    LET got == goversion(goroot, ran)
                        parsed == ParseLine(got.line)
                    IN  IF got.err # NilError
                        THEN /\ pc' = "exit1"
                             /\ err' = got.err
                             /\ UNCHANGED <<pos, probed, list>>
                        ELSE IF parsed.kind = "panic"
                        THEN /\ pc' = "panic"
                             /\ UNCHANGED <<pos, probed, list, err>>
                        ELSE IF parsed.kind = "error"
                        THEN /\ pc' = "exit1"
                             /\ err' = PlainError("parse")
                             /\ UNCHANGED <<pos, probed, list>>
                        ELSE /\ pos' = pos + 1
                             /\ probed' = Append(probed, Release(goroot, parsed.v))
                             /\ list' = IF Less(parsed.v, since)
                                        THEN list
                                        ELSE Append(list, Release(goroot, parsed.v))
                             /\ UNCHANGED <<pc, err>>
    /\ UNCHANGED <<files, since, test, releases, rpos, index, stderr, calls,
                   parseVars, cmpVars, invokeVars>>

\* gosdklist returning to main without the check for an empty list
gosdklistReturnUnchecked ==
    /\ pc = "list"
    /\ pos > Len(files)
    /\ \E sorted \in Sorted(list) :
           /\ releases' = sorted
           /\ pc' = "run"
           /\ rpos' = 1
    /\ UNCHANGED <<files, since, test, pos, probed, list, err, index, stderr,
                   calls, parseVars, cmpVars, invokeVars>>

\* gosdklist returning to main with the list as the loop left it
gosdklistReturnUnsorted ==
    /\ pc = "list"
    /\ pos > Len(files)
    /\ IF Len(list) = 0
       THEN /\ pc' = "exit1"
            /\ err' = PlainError("no go releases found")
            /\ UNCHANGED <<releases, rpos>>
       ELSE /\ releases' = list
            /\ pc' = "run"
            /\ rpos' = 1
            /\ UNCHANGED err
    /\ UNCHANGED <<files, since, test, pos, probed, list, index, stderr, calls,
                   parseVars, cmpVars, invokeVars>>

\* gosdklist: after the loop, the check for an empty list, the sort and the
\* return to main, which goes on to run or exits with the error
gosdklistReturn ==
    /\ pc = "list"
    /\ pos > Len(files)
    /\ IF Len(list) = 0
       THEN /\ pc' = "exit1"
            /\ err' = PlainError("no go releases found")
            /\ UNCHANGED <<releases, rpos>>
       ELSE \E sorted \in Sorted(list) :
                /\ releases' = sorted
                /\ pc' = "run"
                /\ rpos' = 1
                /\ UNCHANGED err
    /\ UNCHANGED <<files, since, test, pos, probed, list, index, stderr, calls,
                   parseVars, cmpVars, invokeVars>>

\* the tool run selects
tool(rel, pats, ran) ==
    IF test THEN gotest(rel, pats, ran) ELSE govet(rel, pats, ran)

\* the command the tool runs
toolCall(rel, pats) ==
    toolCmd(rel, pats, IF test THEN << "t", "e", "s", "t" >> ELSE << "v", "e", "t" >>)

\* run: one iteration of the loop over the releases
runLoop ==
    /\ pc = "run"
    /\ rpos <= Len(releases)
    /\ \E ran \in ToolRuns :
           LET rel == releases[rpos]
               res == tool(rel, patterns, ran)
           IN  /\ calls' = Append(calls, [cmd |-> toolCall(rel, patterns),
                                          rel |-> rel, ran |-> ran])
               /\ IF res.err # NilError
                  THEN /\ pc' = "exit1"
                       /\ err' = res.err
                       /\ UNCHANGED <<rpos, index, stderr>>
                  ELSE IF res.msg = << >>
                  THEN /\ rpos' = rpos + 1
                       /\ UNCHANGED <<pc, err, index, stderr>>
                  ELSE /\ stderr' = stderr \o Diagnostic(index, rel, res.msg)
                       /\ index' = index + 1
                       /\ rpos' = rpos + 1
                       /\ UNCHANGED <<pc, err>>
    /\ UNCHANGED <<files, since, test, pos, probed, list, releases, parseVars,
                   cmpVars, invokeVars>>

\* run: the loop is over, run returns nil and main returns
runReturn ==
    /\ pc = "run"
    /\ rpos > Len(releases)
    /\ pc' = "exit0"
    /\ UNCHANGED <<files, since, test, pos, probed, list, releases, err, rpos,
                   index, stderr, calls, parseVars, cmpVars, invokeVars>>

Next ==
    \/ gosdklistReadDirFails
    \/ gosdklistReadDir
    \/ gosdklistLoop
    \/ gosdklistReturn
    \/ runLoop
    \/ runReturn

Spec == Init /\ [][Next]_vars

----------------------------------------------------------------------------
(* Claims about discovery and the run loop. *)

FailedToStart(c) == c.ran.cause \in {"Error", "PathError"}

\* the diagnostic blocks on stderr: the header and the message of each
RECURSIVE BlocksOf(_)
BlocksOf(w) ==
    IF w = << >>
    THEN << >>
    ELSE IF w[1].what = "header"
         THEN << [header |-> w[1].data,
                  message |-> IF Len(w) >= 2 /\ w[2].what = "message"
                              THEN w[2].data
                              ELSE << >>] >>
                  \o BlocksOf(Tail(w))
         ELSE BlocksOf(Tail(w))

\* one block for each call that exited with a non-zero status, in order
RECURSIVE DiagnosticsFor(_)
DiagnosticsFor(cs) ==
    IF cs = << >>
    THEN << >>
    ELSE (IF cs[1].ran.cause = "ExitError"
          THEN << [header |-> Using \o String(cs[1].rel.version) \o << "\n" >>,
                   message |-> TrimSpace(cs[1].ran.stderr)] >>
          ELSE << >>)
             \o DiagnosticsFor(Tail(cs))

\* C1: when no command fails to start, run processes every release, prints
\* one block (header "using go<version>", then the captured stderr) for each
\* release whose command exited non-zero, in release order, nothing for a
\* release whose command exited 0, and returns no error.
RunReportsEveryNonZeroExit ==
    pc = "exit0" =>
        /\ err = NilError
        /\ Len(calls) = Len(releases)
        /\ \A k \in 1..Len(calls) : calls[k].rel = releases[k]
        /\ BlocksOf(stderr) = DiagnosticsFor(calls)

\* C2: when the command of a release fails to start, run returns that error
\* at once: the step prints nothing and leaves the failed-release counter
\* alone, and after it no command is run and nothing is printed.
FatalStopsRun ==
    [][/\ (calls' # calls /\ FailedToStart(calls'[Len(calls')])) =>
            /\ pc' = "exit1"
            /\ err' = InvokeError(calls'[Len(calls')].cmd, calls'[Len(calls')].ran)
            /\ stderr' = stderr
            /\ index' = index
       /\ pc = "exit1" =>
            /\ pc' = "exit1"
            /\ calls' = calls
            /\ stderr' = stderr]_vars

\* C2 witness: the command of the second of three releases failed to start
\* after a diagnostic was printed for the first.
FatalStopsRunWitness ==
    /\ pc = "exit1"
    /\ Len(releases) = 3
    /\ Len(calls) = 2
    /\ FailedToStart(calls[2])
    /\ Len(BlocksOf(stderr)) = 1

Count(w, what) == Cardinality({ k \in 1..Len(w) : w[k].what = what })

\* C7: the separators written are max(0, D - 1) for D blocks printed, each
\* immediately before a block that is not the first, none before the first
\* block or after the last; the failed-release counter is D.
SeparatorInvariant ==
    LET n == Len(stderr)
        D == Count(stderr, "header")
    IN  /\ Count(stderr, "separator") = IF D = 0 THEN 0 ELSE D - 1
        /\ index = D
        /\ n > 0 => stderr[1].what = "header" /\ stderr[n].what = "newline"
        /\ \A k \in 1..n :
               /\ stderr[k].what = "separator" =>
                      /\ 1 < k
                      /\ k < n
                      /\ stderr[k - 1].what = "newline"
                      /\ stderr[k + 1].what = "header"
               /\ stderr[k].what = "header" /\ k > 1 =>
                      stderr[k - 1].what = "separator"

\* C7 witness: two blocks were printed with a clean release between them.
SeparatorWitness ==
    /\ Len(calls) = 3
    /\ calls[1].ran.cause = "ExitError"
    /\ calls[2].ran.cause = "nil"
    /\ calls[3].ran.cause = "ExitError"
    /\ Count(stderr, "header") = 2
    /\ Count(stderr, "separator") = 1

\* the roots of the directories whose name starts with "go"
Candidates ==
    { PathJoin(<< gosdk, files[k].name >>) :
        k \in { j \in 1..Len(files) :
                  files[j].isDir /\ HasPrefix(files[j].name, GoPrefix) } }

Range(q) == { q[k] : k \in 1..Len(q) }

\* the candidates whose version is not less than since
Kept == { r \in Range(probed) : ~Less(r.version, since) }

ZeroSinceFiltersNothing ==
    pc = "run" /\ since = ZeroVersion => Range(probed) \subseteq Range(releases)

\* gosdklist went through every entry and returned
LoopCompleted == pos > Len(files) /\ pc # "list"

\* C10: discovery never returns an empty success: when no candidate is left
\* after filtering it returns an error and no list, and a list returned
\* without error holds at least one release.
DiscoveryNeverEmpty ==
    /\ pc \in {"run", "exit0"} \/ calls # << >> => Len(releases) >= 1
    /\ pc = "exit1" /\ calls = << >> => releases = << >>
    /\ LoopCompleted /\ Kept = {} =>
           /\ pc = "exit1"
           /\ err = PlainError("no go releases found")
           /\ releases = << >>

\* C10 witness: both candidates were below since and discovery failed.
DiscoveryEmptyWitness ==
    /\ pc = "exit1"
    /\ Len(probed) = 2
    /\ Kept = {}
    /\ err = PlainError("no go releases found")

====
